---- MODULE Spec2Model ----
(***************************************************************************)
(* BluetoothService (src/services/bluetooth.py): connection state, the     *)
(* call session with its auto-connect and auto-miss timers, the bounded    *)
(* call history and the background tick loop.                              *)
(*                                                                         *)
(* Python objects are modelled by reference: `calls` is the heap of call   *)
(* dictionaries, current_call and call_history hold indices into it, and   *)
(* active_device holds the key of a dictionary of paired_devices.          *)
(* time.time() is the integer clock `now` (seconds since construction);    *)
(* a threading.Timer is a record of `timers` that fires when its delay has *)
(* elapsed, a tick loop is a record of `loops` that wakes when its sleep   *)
(* has elapsed. The clock moves from one instant at which something is due *)
(* to the next; any number of commands and callbacks may run, in any       *)
(* order, within an instant.                                               *)
(*                                                                         *)
(* Connect, MakeCall, EndCall, ... are whole handlers (a command, a timer   *)
(* callback or a loop iteration run without interruption); ConnectStep,     *)
(* MakeCallStep, ... run the same handlers statement by statement on the    *)
(* threads of pc, so that handlers interleave. `ret` holds what the last    *)
(* command returned; origin, answered and ended are history variables;     *)
(* budget bounds the number of calls a behaviour creates.                  *)
(*                                                                         *)
(*   Spec             one new call, horizon MaxTime                        *)
(*   FairSpec         Spec with timers, loops and the clock making progress*)
(*   SpecTwoCalls     two new calls                                        *)
(*   SpecHistory      a burst of MaxBurst calls at time 0                  *)
(*   SpecDevices      no call; every device, every drift outcome           *)
(*   SpecRegistry     SpecDevices over a range of registries               *)
(*   SpecConnThreads  connect, disconnect, get_status by statements        *)
(*   SpecCallThreads  make_call, answer_call, end_call and the timer       *)
(*                    callbacks by statements                              *)
(*   SpecTargets      make_call with and without number and contact id     *)
(*   SpecLifecycle    start and stop of the background loop                *)
(*   FairLifecycle    SpecLifecycle with scheduling                        *)
(*   SpecRingThreads  the loop's injection of a call by statements         *)
(*   SpecRadio        RadioService (src/services/radio.py): set_mode,      *)
(*                    seek_next, seek_prev                                 *)
(***************************************************************************)
EXTENDS Integers, Sequences, FiniteSets, Bags, TLC

VARIABLES
    radio,           \* the RadioService object: mode, frequency (in tenths
                     \* of a MHz), current_station, rds_text, station_list,
                     \* current_station_index (counted from 0)
    now,             \* time.time(), in seconds since __init__
    connected,       \* self.connected
    paired_devices,  \* self.paired_devices: device id -> device dictionary
    active_device,   \* self.active_device: a device id, or None
    call_status,     \* self.call_status: a CallStatus name
    current_call,    \* self.current_call: index into calls, or NoCall
    call_history,    \* self.call_history: list of indices into calls
    calls,           \* heap of call dictionaries, in order of creation
    running,         \* self.running
    thread,          \* self.thread: id of the last loop started, or NoThread
    loops,           \* live _bluetooth_thread loops: [id, wake]
    nloops,          \* number of loops ever started
    joining,         \* deadline of the join a stop() is blocked in, or NoJoin
    timers,          \* bag of pending threading.Timer objects: [kind, due]
    ret,             \* value returned by the last command
    origin,          \* history variable: how and when each call was created
    answered,        \* history variable: [call, at] for each accepted answer_call
    ended,           \* history variable: [call, by, conn] in order of termination
    budget,          \* number of calls that may still be created
    pc               \* per thread: the operation it runs, the line it is at
                     \* and the value it returned or has built so far

vars == <<radio, now, connected, paired_devices, active_device, call_status,
          current_call, call_history, calls, running, thread, loops, nloops,
          joining, timers, ret, origin, answered, ended, budget, pc>>

(* ------------------------------ bounds -------------------------------- *)
MaxTime == 15        \* the clock stops advancing here
MaxCalls == 1        \* calls created after construction, under Spec
MaxCallsTwo == 2     \* the same, under SpecTwoCalls
MaxBurst == 50       \* the same, under SpecHistory
MaxLoops == 2        \* tick loops ever started

(* ------------------------- program constants -------------------------- *)
ConnectDelay == 2    \* threading.Timer(2.0, self._connect_call)
MissDelay == 15      \* threading.Timer(15.0, self._auto_miss_call)
TickSleep == 5       \* time.sleep(5)
HistoryLimit == 50   \* len(self.call_history) > 50
MaxSignal == 5       \* min(5, ...)
JoinTimeout == 1     \* self.thread.join(timeout=1)

None == "None"
NoCall == 0
NoThread == 0
NoJoin == 0 - 1

CallStatus == {"IDLE", "INCOMING", "OUTGOING", "ACTIVE", "HELD", "MISSED"}

\* The threads that run the service's code step by step: two request
\* handlers, the status poller and the thread of a timer that fires.
Handlers == {"h1", "h2"}
Threads == Handlers \cup {"poll", "timer", "loop"}

\* A thread that is not inside the service.
Idle == [op |-> "none", at |-> 0, result |-> None]

(* ---------------------------- sample data ----------------------------- *)
SampleDevices ==
    [d \in {"device1", "device2", "device3"} |->
        CASE d = "device1" ->
               [id |-> "device1", name |-> "Pixel 7 Pro", type |-> "PHONE",
                battery |-> 85, signal |-> 4, last_connected |-> 0]
          [] d = "device2" ->
               [id |-> "device2", name |-> "Sony WH-1000XM4", type |-> "AUDIO",
                battery |-> 60, last_connected |-> 0 - 86400]
          [] d = "device3" ->
               [id |-> "device3", name |-> "iPhone 14", type |-> "PHONE",
                battery |-> 75, signal |-> 3, last_connected |-> 0 - 172800]]

contacts ==
    << [id |-> "contact1", name |-> "John Smith", number |-> "+1 (555) 123-4567"],
       [id |-> "contact2", name |-> "Jane Doe", number |-> "+1 (555) 987-6543"],
       [id |-> "contact3", name |-> "Alice Johnson", number |-> "+1 (555) 555-5555"],
       [id |-> "contact4", name |-> "Bob Williams", number |-> "+1 (555) 444-3333"],
       [id |-> "contact5", name |-> "Chris Taylor", number |-> "+1 (555) 222-1111"] >>

SampleHistory ==
    << [number |-> "+1 (555) 123-4567", name |-> "John Smith",
        start_time |-> 0 - 3600, end_time |-> 0 - 3500, duration |-> 100,
        type |-> "outgoing"],
       [number |-> "+1 (555) 987-6543", name |-> "Jane Doe",
        start_time |-> 0 - 7200, end_time |-> 0 - 7170, duration |-> 30,
        type |-> "incoming"],
       [number |-> "+1 (555) 333-2222", name |-> "Unknown",
        start_time |-> 0 - 43200, end_time |-> 0 - 43200, duration |-> 0,
        type |-> "missed"] >>

Seeded == Len(SampleHistory)

\* RadioService.__init__
DefaultFrequency == 955
RadioConstructed ==
    [mode |-> "DAB", frequency |-> DefaultFrequency,
     current_station |-> "No Station", rds_text |-> <<"", "">>,
     station_list |-> <<>>, current_station_index |-> 0]

\* The state __init__ leaves.
Constructed ==
    /\ radio = RadioConstructed
    /\ now = 0
    /\ connected = FALSE
    /\ paired_devices = SampleDevices
    /\ active_device = None
    /\ call_status = "IDLE"
    /\ current_call = NoCall
    /\ calls = SampleHistory
    /\ call_history = [i \in 1..Seeded |-> i]
    /\ running = FALSE
    /\ thread = NoThread
    /\ loops = {}
    /\ nloops = 0
    /\ joining = NoJoin
    /\ timers = EmptyBag
    /\ ret = None
    /\ origin = [i \in 1..Seeded |-> [how |-> "seed", at |-> 0]]
    /\ answered = {}
    /\ ended = <<>>
    /\ pc = [t \in Threads |-> Idle]

Init ==
    /\ Constructed
    /\ budget = MaxCalls

(* ------------------------------ helpers ------------------------------- *)
Max(a, b) == IF a >= b THEN a ELSE b
Min(a, b) == IF a <= b THEN a ELSE b

\* Order of the keys of self.paired_devices (dictionary insertion order).
DeviceOrder == <<"device1", "device2", "device3">>

\* Time 0 of time.time() on the clock of the model, whose 0 is the time of
\* construction: earlier than every timestamp of the sample data.
Epoch == 0 - 1000000

\* d.get("last_connected", 0)
LastConnectedKey(d) ==
    IF "last_connected" \in DOMAIN d THEN d.last_connected ELSE Epoch

\* Mutant of RecentDevice: among the devices with the greatest key the last in
\* dictionary order is taken.
RecentDeviceLast(devs) ==
    LET ids == {i \in 1..Len(DeviceOrder) : DeviceOrder[i] \in DOMAIN devs}
        key(i) == LastConnectedKey(devs[DeviceOrder[i]])
        best == CHOOSE i \in ids :
                    /\ \A j \in ids : key(j) <= key(i)
                    /\ \A j \in ids : key(j) = key(i) => i >= j
    IN  DeviceOrder[best]

\* sorted(values, key=..., reverse=True)[0]: the sort is stable, so among the
\* devices with the greatest key the first in dictionary order comes first.
RecentDevice(devs) ==
    LET ids == {i \in 1..Len(DeviceOrder) : DeviceOrder[i] \in DOMAIN devs}
        key(i) == LastConnectedKey(devs[DeviceOrder[i]])
        best == CHOOSE i \in ids :
                    /\ \A j \in ids : key(j) <= key(i)
                    /\ \A j \in ids : key(j) = key(i) => i <= j
    IN  DeviceOrder[best]

\* Mutant of InsertHistory: on overflow the newest record is the one dropped.
InsertHistoryKeepOld(h, c) ==
    LET ins == <<c>> \o h
    IN  IF Len(ins) > HistoryLimit THEN SubSeq(ins, 2, Len(ins)) ELSE ins

\* Mutant of InsertHistory: the record is put at the end of the list.
InsertHistoryAppend(h, c) ==
    LET ins == h \o <<c>>
    IN  IF Len(ins) > HistoryLimit THEN SubSeq(ins, 1, HistoryLimit) ELSE ins

\* self.call_history.insert(0, c); if len > 50: keep [:50]
InsertHistory(h, c) ==
    LET ins == <<c>> \o h
    IN  IF Len(ins) > HistoryLimit THEN SubSeq(ins, 1, HistoryLimit) ELSE ins

\* Mutant of FindContact: no contact is ever found.
FindContactNever(contact_id) == 0

\* for contact in self.contacts: if contact["id"] == contact_id: ... break
FindContact(contact_id) ==
    LET hits == {i \in 1..Len(contacts) : contacts[i].id = contact_id}
    IN  IF hits = {} THEN 0
        ELSE CHOOSE i \in hits : \A j \in hits : i <= j

\* The dictionary built by make_call and _simulate_incoming_call.
NewCall(number, name) ==
    [number |-> number, name |-> name, start_time |-> now, duration |-> 0]

\* d[k] = v on a dictionary that may not hold k yet.
SetKey(d, k, v) == [x \in DOMAIN d \cup {k} |-> IF x = k THEN v ELSE d[x]]

(* ----------------------------- connection ----------------------------- *)
\* Mutant of ConnectTo: the device dictionary is built anew.
ConnectToFresh(target) ==
    /\ active_device' = target
    /\ connected' = TRUE
    /\ paired_devices' = [paired_devices EXCEPT ![target] =
                              [id |-> target, name |-> "Unknown device",
                               type |-> "OTHER", battery |-> 100,
                               last_connected |-> now]]
    /\ ret' = "True"

\* Mutant of ConnectTo: last_connected is not stamped.
ConnectToNoStamp(target) ==
    /\ active_device' = target
    /\ connected' = TRUE
    /\ paired_devices' = paired_devices
    /\ ret' = "True"

\* self.active_device = ...; self.connected = True;
\* self.active_device["last_connected"] = time.time(); return True
ConnectTo(target) ==
    /\ active_device' = target
    /\ connected' = TRUE
    /\ paired_devices' = [paired_devices EXCEPT ![target] =
                              SetKey(@, "last_connected", now)]
    /\ ret' = "True"

Connect(device_id) ==
    /\ IF device_id # None /\ device_id \in DOMAIN paired_devices
         THEN ConnectTo(device_id)
       ELSE IF device_id = None /\ DOMAIN paired_devices # {}
         THEN ConnectTo(RecentDevice(paired_devices))
       ELSE /\ ret' = "False"
            /\ UNCHANGED <<active_device, connected, paired_devices>>
    /\ UNCHANGED <<radio, pc, now, call_status, current_call, call_history, calls, running,
                   thread, loops, nloops, joining, timers, origin, answered, ended,
                   budget>>

\* Mutant of DisconnectRefused: disconnect never goes through.
DisconnectRefusedAlways == TRUE

\* if not self.connected: return False
DisconnectRefused == ~connected

Disconnect ==
    /\ IF DisconnectRefused
         THEN /\ ret' = "False"
              /\ UNCHANGED <<connected, active_device>>
         ELSE /\ active_device # None     \* self.active_device.get(...)
              /\ connected' = FALSE
              /\ active_device' = None
              /\ ret' = "True"
    /\ UNCHANGED <<radio, pc, now, paired_devices, call_status, current_call, call_history,
                   calls, running, thread, loops, nloops, joining, timers,
                   origin, answered, ended, budget>>

(* -------------------------------- calls ------------------------------- *)
\* Mutant of MakeCallRefused: the connection is not checked.
MakeCallRefusedNoConn == call_status # "IDLE"

\* if not self.connected or self.call_status != CallStatus.IDLE: return False
MakeCallRefused == ~connected \/ call_status # "IDLE"

MakeCall(number, contact_id) ==
    /\ IF MakeCallRefused
         THEN /\ ret' = "False"
              /\ UNCHANGED <<call_status, current_call, calls, timers, origin,
                             budget>>
         ELSE LET c == IF contact_id # None THEN FindContact(contact_id) ELSE 0
                  num == IF c # 0 THEN contacts[c].number ELSE number
                  nam == IF c # 0 THEN contacts[c].name ELSE None
                  id == Len(calls) + 1
              IN  /\ budget > 0
                  /\ budget' = budget - 1
                  /\ call_status' = "OUTGOING"
                  /\ calls' = Append(calls, NewCall(num, nam))
                  /\ current_call' = id
                  /\ timers' = timers (+) SetToBag(
                       {[kind |-> "connect", due |-> now + ConnectDelay]})
                  /\ origin' = Append(origin, [how |-> "make_call", at |-> now])
                  /\ ret' = "True"
    /\ UNCHANGED <<radio, pc, now, connected, paired_devices, active_device, call_history,
                   running, thread, loops, nloops, joining, answered, ended>>

\* The auto-connect timer t fires: _connect_call.
\* Mutant of StillOutgoing: the callee picks up only while connected.
StillOutgoingConnected == connected /\ call_status = "OUTGOING"

\* if self.call_status == CallStatus.OUTGOING
StillOutgoing == call_status = "OUTGOING"

ConnectCall(t) ==
    /\ BagIn(t, timers) /\ t.kind = "connect" /\ now >= t.due
    /\ timers' = timers (-) SetToBag({t})
    /\ call_status' = IF StillOutgoing THEN "ACTIVE" ELSE call_status
    /\ UNCHANGED <<radio, pc, now, connected, paired_devices, active_device, current_call,
                   call_history, calls, running, thread, loops, nloops, joining,
                   ret, origin, answered, ended, budget>>

\* Mutant of AnswerCallRefused: a call that is being dialled can be answered.
AnswerCallRefusedOutgoing ==
    ~connected \/ call_status \notin {"INCOMING", "OUTGOING"} \/ current_call = NoCall

\* if not self.connected or self.call_status != CallStatus.INCOMING
\*    or not self.current_call: return False
AnswerCallRefused ==
    ~connected \/ call_status # "INCOMING" \/ current_call = NoCall

AnswerCall ==
    /\ IF AnswerCallRefused
         THEN /\ ret' = "False"
              /\ UNCHANGED <<call_status, calls, answered>>
         ELSE /\ call_status' = "ACTIVE"
              /\ calls' = [calls EXCEPT ![current_call].start_time = now]
              /\ answered' = answered \cup {[call |-> current_call, at |-> now]}
              /\ ret' = "True"
    /\ UNCHANGED <<radio, pc, now, connected, paired_devices, active_device, current_call,
                   call_history, running, thread, loops, nloops, joining, timers,
                   origin, ended, budget>>

\* Mutant of EndedCall: the duration is computed whatever the status.
EndedCallAlwaysTimed(c, status) ==
    LET call_type == IF status = "INCOMING" THEN "missed"
                     ELSE IF status = "OUTGOING" THEN "outgoing"
                     ELSE "incoming"
    IN  [x \in DOMAIN c \cup {"end_time", "type"} |->
            IF x = "end_time" THEN now
            ELSE IF x = "type" THEN call_type
            ELSE IF x = "duration" THEN now - c.start_time
            ELSE c[x]]

\* The dictionary of the current call as end_call leaves it in the history.
EndedCall(c, status) ==
    LET c1 == SetKey(c, "end_time", now)
        c2 == IF status = "ACTIVE"
                THEN [c1 EXCEPT !.duration = c1.end_time - c1.start_time]
                ELSE c1
        call_type == IF status = "INCOMING" THEN "missed"
                     ELSE IF status = "OUTGOING" THEN "outgoing"
                     ELSE "incoming"
    IN  SetKey(c2, "type", call_type)

\* Mutant of EndCallRefused: a ringing call cannot be ended.
EndCallRefusedIncoming ==
    ~connected \/ (call_status # "ACTIVE" /\ call_status # "OUTGOING")

\* Mutant of EndCallRefused: the connection is not checked.
EndCallRefusedNoConn ==
    call_status # "ACTIVE" /\ call_status # "OUTGOING" /\ call_status # "INCOMING"

\* if not self.connected or (status != ACTIVE and status != OUTGOING
\*                            and status != INCOMING): return False
EndCallRefused ==
    ~connected \/ (call_status # "ACTIVE" /\ call_status # "OUTGOING"
                   /\ call_status # "INCOMING")

EndCall ==
    /\ IF EndCallRefused
         THEN /\ ret' = "False"
              /\ UNCHANGED <<call_status, current_call, call_history, calls, ended>>
         ELSE /\ IF current_call # NoCall
                   THEN /\ calls' = [calls EXCEPT ![current_call] =
                                        EndedCall(@, call_status)]
                        /\ call_history' = InsertHistory(call_history, current_call)
                        /\ ended' = Append(ended, [call |-> current_call,
                                                    by |-> "end_call", conn |-> connected])
                   ELSE UNCHANGED <<calls, call_history, ended>>
              /\ call_status' = "IDLE"
              /\ current_call' = NoCall
              /\ ret' = "True"
    /\ UNCHANGED <<radio, pc, now, connected, paired_devices, active_device, running, thread,
                   loops, nloops, joining, timers, origin, answered, budget>>

\* The dictionary of the current call as _auto_miss_call leaves it in the history.
MissedCall(c) == SetKey(SetKey(c, "type", "missed"), "end_time", now)

\* The auto-miss timer t fires: _auto_miss_call.
\* Mutant of StillIncoming: a call is missed only while connected.
StillIncomingConnected == connected /\ call_status = "INCOMING"

\* Mutant of StillIncoming: the timer also ends an answered call.
StillIncomingOrActive == call_status \in {"INCOMING", "ACTIVE"}

\* if self.call_status == CallStatus.INCOMING
StillIncoming == call_status = "INCOMING"

AutoMissCall(t) ==
    /\ BagIn(t, timers) /\ t.kind = "miss" /\ now >= t.due
    /\ timers' = timers (-) SetToBag({t})
    /\ IF StillIncoming
         THEN /\ IF current_call # NoCall
                   THEN /\ calls' = [calls EXCEPT ![current_call] = MissedCall(@)]
                        /\ call_history' = InsertHistory(call_history, current_call)
                        /\ ended' = Append(ended, [call |-> current_call,
                                                    by |-> "auto_miss", conn |-> connected])
                   ELSE UNCHANGED <<calls, call_history, ended>>
              /\ current_call' = NoCall
              /\ call_status' = "IDLE"
         ELSE UNCHANGED <<call_status, current_call, call_history, calls, ended>>
    /\ UNCHANGED <<radio, pc, now, connected, paired_devices, active_device, running, thread,
                   loops, nloops, joining, ret, origin, answered, budget>>

(* --------------------------- background loop -------------------------- *)
Start ==
    /\ IF running
         THEN /\ ret' = None
              /\ UNCHANGED <<running, thread, loops, nloops>>
         ELSE /\ nloops < MaxLoops
              /\ running' = TRUE
              /\ nloops' = nloops + 1
              /\ thread' = nloops + 1
              /\ loops' = loops \cup {[id |-> nloops + 1, wake |-> now]}
              /\ ret' = "True"
    /\ UNCHANGED <<radio, pc, now, connected, paired_devices, active_device, call_status,
                   current_call, call_history, calls, joining, timers, origin,
                   answered, ended, budget>>

Alive(id) == \E l \in loops : l.id = id

\* stop() up to the point where it blocks in join (or returns, without a thread).
Stop ==
    /\ joining = NoJoin
    /\ running' = FALSE
    /\ IF thread # NoThread
         THEN joining' = now + JoinTimeout /\ UNCHANGED ret
         ELSE joining' = NoJoin /\ ret' = None
    /\ UNCHANGED <<radio, pc, now, connected, paired_devices, active_device, call_status,
                   current_call, call_history, calls, thread, loops, nloops,
                   timers, origin, answered, ended, budget>>

\* Mutant of StopReturn: a join without timeout.
StopReturnNoTimeout ==
    /\ joining # NoJoin
    /\ ~Alive(thread)
    /\ thread' = NoThread
    /\ joining' = NoJoin
    /\ ret' = None
    /\ UNCHANGED <<radio, pc, now, connected, paired_devices, active_device, call_status,
                   current_call, call_history, calls, running, loops, nloops,
                   timers, origin, answered, ended, budget>>

\* join returns, the thread having exited or the timeout having elapsed.
StopReturn ==
    /\ joining # NoJoin
    /\ ~Alive(thread) \/ now >= joining
    /\ thread' = NoThread
    /\ joining' = NoJoin
    /\ ret' = None
    /\ UNCHANGED <<radio, pc, now, connected, paired_devices, active_device, call_status,
                   current_call, call_history, calls, running, loops, nloops,
                   timers, origin, answered, ended, budget>>

\* _simulate_incoming_call with random.choice(self.contacts) = contacts[pick]
SimulateIncomingCall(pick) ==
    IF Len(contacts) = 0
      THEN UNCHANGED <<call_status, current_call, calls, timers, origin, budget>>
      ELSE LET id == Len(calls) + 1
           IN  /\ budget > 0
               /\ budget' = budget - 1
               /\ call_status' = "INCOMING"
               /\ calls' = Append(calls, NewCall(contacts[pick].number,
                                                 contacts[pick].name))
               /\ current_call' = id
               /\ timers' = timers (+) SetToBag(
                    {[kind |-> "miss", due |-> now + MissDelay]})
               /\ origin' = Append(origin, [how |-> "simulated", at |-> now])

\* Mutant of Drift: neither value is clamped.
DriftUnclamped(d, drain, move, delta) ==
    LET d1 == IF drain THEN [d EXCEPT !.battery = d.battery - 1] ELSE d
    IN  IF move THEN [d1 EXCEPT !.signal = d1.signal + delta] ELSE d1

\* The device dictionary after the drift step; drain and move are the outcomes
\* of random.random() < 0.1 and < 0.2, delta that of random.choice([-1, 1]).
Drift(d, drain, move, delta) ==
    LET d1 == IF drain THEN [d EXCEPT !.battery = Max(0, d.battery - 1)] ELSE d
    IN  IF move THEN [d1 EXCEPT !.signal = Max(0, Min(MaxSignal, d1.signal + delta))]
        ELSE d1

\* The drift step raises KeyError: the device has no "signal" key.
DriftRaises(d, move) == move /\ "signal" \notin DOMAIN d

\* One iteration of the while loop of _bluetooth_thread by loop l, which then
\* sleeps; ring is the outcome of random.random() < 0.0005.
BluetoothThread(l, ring, pick, drain, move, delta) ==
    /\ l \in loops /\ now >= l.wake
    /\ IF ~running
         THEN /\ loops' = loops \ {l}
              /\ UNCHANGED <<paired_devices, call_status, current_call, calls,
                             timers, origin, budget>>
         ELSE /\ IF connected /\ call_status = "IDLE" /\ ring
                   THEN SimulateIncomingCall(pick)
                   ELSE UNCHANGED <<call_status, current_call, calls, timers, origin,
                                    budget>>
              /\ IF connected /\ active_device # None
                   THEN LET d == paired_devices[active_device]
                        IN  IF DriftRaises(d, move)
                              THEN /\ paired_devices' =
                                        [paired_devices EXCEPT ![active_device] =
                                            Drift(d, drain, FALSE, delta)]
                                   /\ loops' = loops \ {l}
                              ELSE /\ paired_devices' =
                                        [paired_devices EXCEPT ![active_device] =
                                            Drift(d, drain, move, delta)]
                                   /\ loops' = (loops \ {l}) \cup
                                        {[id |-> l.id, wake |-> now + TickSleep]}
                   ELSE /\ UNCHANGED paired_devices
                        /\ loops' = (loops \ {l}) \cup
                               {[id |-> l.id, wake |-> now + TickSleep]}
    /\ UNCHANGED <<radio, pc, now, connected, active_device, call_history, running, thread,
                   nloops, joining, ret, answered, ended>>

(* -------------------------------- time -------------------------------- *)
\* The instants at which a timer, a sleeping loop or a blocked join is due.
Dues == {t.due : t \in BagToSet(timers)} \cup {l.wake : l \in loops}
           \cup (IF joining = NoJoin THEN {} ELSE {joining})

\* Time passes until the next instant at which something is due: timers and
\* sleeping loops run when their delay has elapsed, not later.
Advance ==
    /\ Dues # {}
    /\ LET next == CHOOSE d \in Dues : \A e \in Dues : d <= e
       IN  /\ next > now
           /\ next <= MaxTime
           /\ now' = next
    /\ UNCHANGED <<radio, pc, connected, paired_devices, active_device, call_status,
                   current_call, call_history, calls, running, thread, loops,
                   nloops, joining, timers, ret, origin, answered, ended, budget>>

(* ------------------------- commands, by steps ------------------------- *)
\* The same handlers run statement by statement by a thread t, so that the
\* statements of different threads interleave. pc[t].at is the source line
\* the thread is about to run (0 outside the service), followed by one digit
\* that numbers the reads of self.active_device within the line. A command
\* that returns or raises leaves its value, or the name of the exception, in
\* ret; pc[t].result is the snapshot get_status has built so far and, once
\* the thread is back at 0, the snapshot it returned or the exception.
Ready(t) == pc[t].at = 0
At(t, op, at) == pc[t].op = op /\ pc[t].at = at
Goto(t, op, at) ==
    /\ pc' = [pc EXCEPT ![t] = [op |-> op, at |-> at, result |-> None]]
    /\ ret' = ret
\* return value: the thread leaves the service and ret holds the value.
Return(t, value) ==
    /\ pc' = [pc EXCEPT ![t] = Idle]
    /\ ret' = value
\* An exception leaves the operation: ret holds its name.
Raise(t, error) ==
    /\ pc' = [pc EXCEPT ![t] = Idle]
    /\ ret' = error
\* A timer callback returns to no caller.
Finish(t) ==
    /\ pc' = [pc EXCEPT ![t] = Idle]
    /\ ret' = ret

\* connect(device_id), lines 107-119.
ConnectStep(t, device_id) ==
    /\ IF Ready(t)
         THEN /\ IF device_id # None /\ device_id \in DOMAIN paired_devices
                   THEN /\ active_device' = device_id
                        /\ Goto(t, "connect", 1160)
                 ELSE IF device_id = None /\ DOMAIN paired_devices # {}
                   THEN /\ active_device' = RecentDevice(paired_devices)
                        /\ Goto(t, "connect", 1160)
                 ELSE /\ UNCHANGED active_device
                      /\ Return(t, "False")
              /\ UNCHANGED <<connected, paired_devices>>
       ELSE IF At(t, "connect", 1160)
         THEN /\ connected' = TRUE
              /\ Goto(t, "connect", 1170)
              /\ UNCHANGED <<active_device, paired_devices>>
       ELSE /\ At(t, "connect", 1170)
            /\ IF active_device = None     \* None["last_connected"] = ...
                 THEN /\ Raise(t, "TypeError")
                      /\ UNCHANGED paired_devices
                 ELSE /\ paired_devices' = [paired_devices EXCEPT ![active_device] =
                                                SetKey(@, "last_connected", now)]
                      /\ Return(t, "True")
            /\ UNCHANGED <<connected, active_device>>
    /\ UNCHANGED <<radio, now, call_status, current_call, call_history, calls, running,
                   thread, loops, nloops, joining, timers, origin, answered,
                   ended, budget>>

\* disconnect(), lines 128-136.
DisconnectStep(t) ==
    /\ IF Ready(t)
         THEN /\ IF DisconnectRefused
                   THEN Return(t, "False")
                   ELSE Goto(t, "disconnect", 1320)
              /\ UNCHANGED <<connected, active_device>>
       ELSE IF At(t, "disconnect", 1320)
         THEN /\ IF active_device = None     \* None.get("name", ...)
                   THEN Raise(t, "AttributeError")
                   ELSE Goto(t, "disconnect", 1330)
              /\ UNCHANGED <<connected, active_device>>
       ELSE IF At(t, "disconnect", 1330)
         THEN /\ connected' = FALSE
              /\ Goto(t, "disconnect", 1350)
              /\ UNCHANGED active_device
       ELSE /\ At(t, "disconnect", 1350)
            /\ active_device' = None
            /\ Return(t, "True")
            /\ UNCHANGED connected
    /\ UNCHANGED <<radio, now, paired_devices, call_status, current_call, call_history,
                   calls, running, thread, loops, nloops, joining, timers,
                   origin, answered, ended, budget>>

\* d.get(key): None when the dictionary has no such key.
Get(d, key) == IF key \in DOMAIN d THEN d[key] ELSE None

\* get_status at a line of the form
\*     field: self.active_device.get(key) if self.active_device else None
\* `at` is the test of self.active_device, at + 1 the read that calls .get.
StatusField(t, at, field, key, next) ==
    IF At(t, "get_status", at)
      THEN IF active_device # None
             THEN pc' = [pc EXCEPT ![t].at = at + 1]
             ELSE pc' = [pc EXCEPT ![t].at = next,
                                   ![t].result = SetKey(@, field, None)]
      ELSE /\ At(t, "get_status", at + 1)
           /\ IF active_device = None     \* None.get(key)
                THEN pc' = [pc EXCEPT ![t].at = 0,
                                      ![t].result = [raised |-> "AttributeError"]]
                ELSE pc' = [pc EXCEPT ![t].at = next,
                                      ![t].result = SetKey(@, field,
                                          Get(paired_devices[active_device], key))]

\* get_status(), lines 78-86: the entries of the dictionary are evaluated in
\* order, each from the attributes as they are at that moment.
GetStatusStep(t) ==
    /\ IF Ready(t)
         THEN pc' = [pc EXCEPT ![t] = [op |-> "get_status", at |-> 800,
                                       result |-> [connected |-> connected]]]
       ELSE IF pc[t].at \in {800, 801}
         THEN StatusField(t, 800, "device_name", "name", 810)
       ELSE IF At(t, "get_status", 810)
         THEN IF active_device # None
                THEN pc' = [pc EXCEPT ![t].at = 811]
                ELSE pc' = [pc EXCEPT ![t].at = 820,
                                      ![t].result = SetKey(@, "device_type", None)]
       ELSE IF At(t, "get_status", 811)     \* ... and self.active_device.get("type")
         THEN IF active_device = None
                THEN pc' = [pc EXCEPT ![t].at = 0,
                                      ![t].result = [raised |-> "AttributeError"]]
              ELSE IF Get(paired_devices[active_device], "type") # None
                THEN pc' = [pc EXCEPT ![t].at = 812]
              ELSE pc' = [pc EXCEPT ![t].at = 820,
                                    ![t].result = SetKey(@, "device_type", None)]
       ELSE IF pc[t].at = 812
         THEN StatusField(t, 811, "device_type", "type", 820)
       ELSE IF pc[t].at \in {820, 821}
         THEN StatusField(t, 820, "battery_level", "battery", 830)
       ELSE IF pc[t].at \in {830, 831}
         THEN StatusField(t, 830, "signal_strength", "signal", 840)
       ELSE IF At(t, "get_status", 840)
         THEN pc' = [pc EXCEPT ![t].at = 850,
                               ![t].result = SetKey(@, "call_status", call_status)]
       ELSE /\ At(t, "get_status", 850)
            /\ pc' = [pc EXCEPT ![t].at = 0,
                                ![t].result = SetKey(@, "current_call", current_call)]
    /\ UNCHANGED <<radio, now, connected, paired_devices, active_device, call_status,
                   current_call, call_history, calls, running, thread, loops,
                   nloops, joining, timers, ret, origin, answered, ended, budget>>

\* make_call(number, contact_id), lines 167-192.
MakeCallStep(t, number, contact_id) ==
    /\ IF Ready(t)
         THEN /\ IF MakeCallRefused
                   THEN /\ Return(t, "False")
                        /\ UNCHANGED budget
                   ELSE /\ budget > 0
                        /\ budget' = budget - 1
                        /\ Goto(t, "make_call", 1700)
              /\ UNCHANGED <<call_status, current_call, calls, timers, origin>>
       ELSE IF At(t, "make_call", 1700)
         THEN /\ call_status' = "OUTGOING"
              /\ Goto(t, "make_call", 1810)
              /\ UNCHANGED <<current_call, calls, timers, origin, budget>>
       ELSE IF At(t, "make_call", 1810)
         THEN LET c == IF contact_id # None THEN FindContact(contact_id) ELSE 0
                  num == IF c # 0 THEN contacts[c].number ELSE number
                  nam == IF c # 0 THEN contacts[c].name ELSE None
              IN  /\ calls' = Append(calls, NewCall(num, nam))
                  /\ current_call' = Len(calls) + 1
                  /\ origin' = Append(origin, [how |-> "make_call", at |-> now])
                  /\ Goto(t, "make_call", 1910)
                  /\ UNCHANGED <<call_status, timers, budget>>
       ELSE /\ At(t, "make_call", 1910)
            /\ timers' = timers (+) SetToBag(
                 {[kind |-> "connect", due |-> now + ConnectDelay]})
            /\ Return(t, "True")
            /\ UNCHANGED <<call_status, current_call, calls, origin, budget>>
    /\ UNCHANGED <<radio, now, connected, paired_devices, active_device, call_history,
                   running, thread, loops, nloops, joining, answered, ended>>

\* answer_call(), lines 207-214.
AnswerCallStep(t) ==
    /\ IF Ready(t)
         THEN /\ IF AnswerCallRefused
                   THEN Return(t, "False")
                   ELSE Goto(t, "answer_call", 2100)
              /\ UNCHANGED <<call_status, calls, answered>>
       ELSE IF At(t, "answer_call", 2100)
         THEN /\ call_status' = "ACTIVE"
              /\ Goto(t, "answer_call", 2110)
              /\ UNCHANGED <<calls, answered>>
       ELSE /\ At(t, "answer_call", 2110)
            /\ IF current_call = NoCall     \* None["start_time"] = ...
                 THEN /\ Raise(t, "TypeError")
                      /\ UNCHANGED <<calls, answered>>
                 ELSE /\ calls' = [calls EXCEPT ![current_call].start_time = now]
                      /\ answered' = answered \cup
                                       {[call |-> current_call, at |-> now]}
                      /\ Return(t, "True")
            /\ UNCHANGED call_status
    /\ UNCHANGED <<radio, now, connected, paired_devices, active_device, current_call,
                   call_history, running, thread, loops, nloops, joining, timers,
                   origin, ended, budget>>

\* end_call(), lines 223-256; lines 230-251 are one step.
EndCallStep(t) ==
    /\ IF Ready(t)
         THEN /\ IF EndCallRefused
                   THEN Return(t, "False")
                   ELSE Goto(t, "end_call", 2300)
              /\ UNCHANGED <<call_status, current_call, call_history, calls, ended>>
       ELSE IF At(t, "end_call", 2300)
         THEN /\ IF current_call # NoCall
                   THEN /\ calls' = [calls EXCEPT ![current_call] =
                                        EndedCall(@, call_status)]
                        /\ call_history' = InsertHistory(call_history, current_call)
                        /\ ended' = Append(ended, [call |-> current_call,
                                                    by |-> "end_call", conn |-> connected])
                   ELSE UNCHANGED <<calls, call_history, ended>>
              /\ Goto(t, "end_call", 2540)
              /\ UNCHANGED <<call_status, current_call>>
       ELSE IF At(t, "end_call", 2540)
         THEN /\ call_status' = "IDLE"
              /\ Goto(t, "end_call", 2550)
              /\ UNCHANGED <<current_call, call_history, calls, ended>>
       ELSE /\ At(t, "end_call", 2550)
            /\ current_call' = NoCall
            /\ Return(t, "True")
            /\ UNCHANGED <<call_status, call_history, calls, ended>>
    /\ UNCHANGED <<radio, now, connected, paired_devices, active_device, running, thread,
                   loops, nloops, joining, timers, origin, answered, budget>>

\* A timer whose delay has elapsed starts its callback on the timer thread:
\* the test of the status at line 196 or 301.
FireTimer(tm) ==
    /\ Ready("timer")
    /\ BagIn(tm, timers) /\ now >= tm.due
    /\ timers' = timers (-) SetToBag({tm})
    /\ IF tm.kind = "connect"
         THEN IF StillOutgoing
                THEN Goto("timer", "_connect_call", 1970)
                ELSE Finish("timer")
         ELSE IF StillIncoming
                THEN Goto("timer", "_auto_miss_call", 3020)
                ELSE Finish("timer")
    /\ UNCHANGED <<radio, now, connected, paired_devices, active_device, call_status,
                   current_call, call_history, calls, running, thread, loops,
                   nloops, joining, origin, answered, ended, budget>>

\* _connect_call, line 197.
ConnectCallStep ==
    /\ At("timer", "_connect_call", 1970)
    /\ call_status' = "ACTIVE"
    /\ Finish("timer")
    /\ UNCHANGED <<radio, now, connected, paired_devices, active_device, current_call,
                   call_history, calls, running, thread, loops, nloops, joining,
                   timers, origin, answered, ended, budget>>

\* _auto_miss_call, lines 302-320; lines 308-316 are one step.
AutoMissCallStep ==
    /\ IF At("timer", "_auto_miss_call", 3020)
         THEN /\ call_status' = "MISSED"
              /\ Goto("timer", "_auto_miss_call", 3080)
              /\ UNCHANGED <<current_call, call_history, calls, ended>>
       ELSE IF At("timer", "_auto_miss_call", 3080)
         THEN /\ IF current_call # NoCall
                   THEN /\ calls' = [calls EXCEPT ![current_call] = MissedCall(@)]
                        /\ call_history' = InsertHistory(call_history, current_call)
                        /\ ended' = Append(ended, [call |-> current_call,
                                                    by |-> "auto_miss", conn |-> connected])
                   ELSE UNCHANGED <<calls, call_history, ended>>
              /\ Goto("timer", "_auto_miss_call", 3190)
              /\ UNCHANGED <<call_status, current_call>>
       ELSE IF At("timer", "_auto_miss_call", 3190)
         THEN /\ current_call' = NoCall
              /\ Goto("timer", "_auto_miss_call", 3200)
              /\ UNCHANGED <<call_status, call_history, calls, ended>>
       ELSE /\ At("timer", "_auto_miss_call", 3200)
            /\ call_status' = "IDLE"
            /\ Finish("timer")
            /\ UNCHANGED <<current_call, call_history, calls, ended>>
    /\ UNCHANGED <<radio, now, connected, paired_devices, active_device, running, thread,
                   loops, nloops, joining, timers, origin, answered, budget>>

(* --------------------------- specification ---------------------------- *)
DeviceArgs == {None, "device1", "device9"}
NumberArgs == {"+15551234567"}
ContactArgs == {None, "contact1"}
PickArgs == {1}      \* indices that random.choice(self.contacts) draws

Next ==
    \/ \E d \in DeviceArgs : Connect(d)
    \/ Disconnect
    \/ \E n \in NumberArgs, c \in ContactArgs : MakeCall(n, c)
    \/ AnswerCall
    \/ EndCall
    \/ \E t \in BagToSet(timers) : ConnectCall(t)
    \/ \E t \in BagToSet(timers) : AutoMissCall(t)
    \/ Start
    \/ \E l \in loops, ring \in BOOLEAN, pick \in PickArgs :
            BluetoothThread(l, ring, pick, FALSE, FALSE, 1)
    \/ Advance

Spec == Init /\ [][Next]_vars

\* Timers fire, sleeping loops wake and time passes: the scheduling that
\* threading.Timer and time.sleep give.
Fairness ==
    /\ WF_vars(Advance)
    /\ WF_vars(\E t \in BagToSet(timers) : ConnectCall(t))
    /\ WF_vars(\E t \in BagToSet(timers) : AutoMissCall(t))
    /\ WF_vars(\E l \in loops, ring \in BOOLEAN, pick \in PickArgs :
                  BluetoothThread(l, ring, pick, FALSE, FALSE, 1))

FairSpec == Spec /\ Fairness

\* The same service with room for a second call.
InitTwoCalls ==
    /\ Constructed
    /\ budget = MaxCallsTwo

SpecTwoCalls == InitTwoCalls /\ [][Next]_vars

\* A burst of calls: MaxBurst calls are created at time 0, one after the
\* other, and time passes once the last of them has been created.
InitHistory ==
    /\ Constructed
    /\ budget = MaxBurst

NextHistory ==
    \/ Connect(None)
    \/ MakeCall("+15551234567", None)
    \/ AnswerCall
    \/ EndCall
    \/ \E t \in BagToSet(timers) : ConnectCall(t)
    \/ \E t \in BagToSet(timers) : AutoMissCall(t)
    \/ Start
    \/ \E l \in loops, ring \in BOOLEAN, pick \in PickArgs :
            BluetoothThread(l, ring, pick, FALSE, FALSE, 1)
    \/ budget = 0 /\ Advance

SpecHistory == InitHistory /\ [][NextHistory]_vars

\* The connection and the registry alone: no call is ever created, every
\* paired device can be connected and the tick loop draws every outcome of
\* its drift step.
AllDeviceArgs == {None, "device1", "device2", "device3", "device9"}
DeltaArgs == {0 - 1, 1}     \* random.choice([-1, 1])

InitDevices ==
    /\ Constructed
    /\ budget = 0

NextDevices ==
    \/ \E d \in AllDeviceArgs : Connect(d)
    \/ Disconnect
    \/ Start
    \/ \E l \in loops, drain \in BOOLEAN, move \in BOOLEAN, delta \in DeltaArgs :
            BluetoothThread(l, FALSE, 1, drain, move, delta)
    \/ Advance

SpecDevices == InitDevices /\ [][NextDevices]_vars

\* The registry as an input: paired_devices holds any subset of the three
\* device ids, in the order of DeviceOrder, each with one of three contents:
\* never connected (no last_connected), connected at the time of
\* construction with battery and signal at their floor, or connected a day
\* before with no signal value.
DeviceChoices(id) ==
    { [id |-> id, name |-> SampleDevices[id].name, type |-> SampleDevices[id].type,
       battery |-> 1, signal |-> MaxSignal],
      [id |-> id, name |-> SampleDevices[id].name, type |-> SampleDevices[id].type,
       battery |-> 0, signal |-> 0, last_connected |-> 0],
      [id |-> id, name |-> SampleDevices[id].name, type |-> SampleDevices[id].type,
       battery |-> 60, last_connected |-> 0 - 86400] }

Registries ==
    UNION { {r \in [ids -> UNION {DeviceChoices(id) : id \in ids}] :
                \A id \in ids : r[id] \in DeviceChoices(id)} :
            ids \in SUBSET DOMAIN SampleDevices }

InitRegistry ==
    /\ now = 0
    /\ connected = FALSE
    /\ paired_devices \in Registries
    /\ active_device = None
    /\ call_status = "IDLE"
    /\ current_call = NoCall
    /\ calls = SampleHistory
    /\ call_history = [i \in 1..Seeded |-> i]
    /\ running = FALSE
    /\ thread = NoThread
    /\ loops = {}
    /\ nloops = 0
    /\ joining = NoJoin
    /\ timers = EmptyBag
    /\ ret = None
    /\ origin = [i \in 1..Seeded |-> [how |-> "seed", at |-> 0]]
    /\ answered = {}
    /\ ended = <<>>
    /\ budget = 0
    /\ pc = [t \in Threads |-> Idle]
    /\ radio = RadioConstructed

NextRegistry ==
    \/ Connect(None)
    \/ Disconnect
    \/ Start
    \/ \E l \in loops, drain \in BOOLEAN, move \in BOOLEAN, delta \in DeltaArgs :
            BluetoothThread(l, FALSE, 1, drain, move, delta)
    \/ Advance

SpecRegistry == InitRegistry /\ [][NextRegistry]_vars

\* An iteration of _bluetooth_thread that injects a call, by statements: the
\* test of line 262 (ring is the outcome of random.random() < 0.0005), then
\* in _simulate_incoming_call the status (286), the payload (287), the timer
\* (297), and the sleep. An iteration that injects no call runs as a whole.
BluetoothThreadStep(l, ring, pick) ==
    /\ l \in loops
    /\ IF Ready("loop")
         THEN /\ now >= l.wake
              /\ running /\ connected /\ call_status = "IDLE" /\ ring
              /\ Len(contacts) # 0
              /\ budget > 0
              /\ budget' = budget - 1
              /\ Goto("loop", "_bluetooth_thread", 2860)
              /\ UNCHANGED <<call_status, current_call, calls, timers, origin,
                             loops>>
       ELSE IF At("loop", "_bluetooth_thread", 2860)
         THEN /\ call_status' = "INCOMING"
              /\ Goto("loop", "_bluetooth_thread", 2870)
              /\ UNCHANGED <<current_call, calls, timers, origin, budget, loops>>
       ELSE IF At("loop", "_bluetooth_thread", 2870)
         THEN /\ calls' = Append(calls, NewCall(contacts[pick].number,
                                                contacts[pick].name))
              /\ current_call' = Len(calls) + 1
              /\ origin' = Append(origin, [how |-> "simulated", at |-> now])
              /\ Goto("loop", "_bluetooth_thread", 2970)
              /\ UNCHANGED <<call_status, timers, budget, loops>>
       ELSE /\ At("loop", "_bluetooth_thread", 2970)
            /\ timers' = timers (+) SetToBag(
                    {[kind |-> "miss", due |-> now + MissDelay]})
            /\ loops' = (loops \ {l}) \cup {[id |-> l.id, wake |-> now + TickSleep]}
            /\ Finish("loop")
            /\ UNCHANGED <<call_status, current_call, calls, origin, budget>>
    /\ UNCHANGED <<radio, now, connected, paired_devices, active_device,
                   call_history, running, thread, nloops, joining, answered,
                   ended>>

\* The commands as whole handlers against a loop that runs by statements.
NextRingThreads ==
    \/ Connect(None)
    \/ \E n \in NumberArgs, c \in ContactArgs : MakeCall(n, c)
    \/ AnswerCall
    \/ EndCall
    \/ \E t \in BagToSet(timers) : ConnectCall(t)
    \/ \E t \in BagToSet(timers) : AutoMissCall(t)
    \/ Start
    \/ \E l \in loops, ring \in BOOLEAN, pick \in PickArgs :
            Ready("loop") /\ BluetoothThread(l, ring, pick, FALSE, FALSE, 1)
    \/ \E l \in loops, pick \in PickArgs : BluetoothThreadStep(l, TRUE, pick)
    \/ Advance

SpecRingThreads == InitTwoCalls /\ [][NextRingThreads]_vars

(* ------------------------------- radio -------------------------------- *)
\* The lists _scan_stations finds: FM frequencies, DAB (id, name) pairs.
FMStations == <<879, 885, 891, 913, 935, 957, 979, 991, 1013, 1035, 1057, 1079>>
DABStations ==
    << <<"0x1001", "BBC Radio 1">>, <<"0x1002", "BBC Radio 2">>,
       <<"0x1003", "BBC Radio 3">>, <<"0x1004", "BBC Radio 4">>,
       <<"0x1005", "Classic FM">>, <<"0x1006", "Heart">>,
       <<"0x1007", "Capital">> >>

\* station_names of _start_fm_radio, in the order of their frequencies.
StationNames ==
    <<"ROCK FM", "CLASSIC HITS", "NEWS 24/7", "SMOOTH JAZZ", "TOP 40", "COUNTRY",
      "TALK RADIO", "HIP HOP", "CLASSICAL", "ALTERNATIVE", "OLDIES", "POP HITS">>

Abs(x) == IF x >= 0 THEN x ELSE 0 - x

\* min(station_names.keys(), key=lambda x: abs(x - frequency)): the first
\* key at the least distance.
ClosestFreq(frequency) ==
    CHOOSE i \in 1..Len(FMStations) :
        /\ \A j \in 1..Len(FMStations) :
              Abs(FMStations[i] - frequency) <= Abs(FMStations[j] - frequency)
        /\ \A j \in 1..(i - 1) :
              Abs(FMStations[j] - frequency) > Abs(FMStations[i] - frequency)

\* _scan_stations: the list of the mode.
ScanStations(mode) == IF mode = "FM" THEN FMStations ELSE DABStations

\* _start_fm_radio on r (self.process is None in the simulation).
StartFmRadio(r) ==
    LET name == StationNames[ClosestFreq(r.frequency)]
    IN  [r EXCEPT !.current_station = name,
                  !.rds_text = <<"You're listening to ", name>>]

\* _start_dab_radio(station_id) on r.
StartDabRadio(r, station_id) ==
    LET hits == {i \in 1..Len(r.station_list) : r.station_list[i][1] = station_id}
        name == IF hits = {} THEN "Unknown Station"
                ELSE r.station_list[CHOOSE i \in hits : \A j \in hits : i <= j][2]
    IN  [r EXCEPT !.current_station = name, !.rds_text = <<"DAB: ", name>>]

ModeArgs == {"FM", "DAB", "AM"}

\* set_mode(mode)
SetMode(mode) ==
    /\ IF mode \in {"FM", "DAB"}
         THEN radio' = [radio EXCEPT !.mode = mode,
                                     !.station_list = ScanStations(mode)]
         ELSE UNCHANGED radio
    /\ UNCHANGED <<pc, now, connected, paired_devices, active_device, call_status,
                   current_call, call_history, calls, running, thread, loops,
                   nloops, joining, timers, ret, origin, answered, ended, budget>>

\* The body of seek_next (step 1) and seek_prev (step -1) on r.
Seek(r, step) ==
    IF Len(r.station_list) = 0 THEN r
    ELSE LET index == (r.current_station_index + step) % Len(r.station_list)
             r1 == [r EXCEPT !.current_station_index = index]
             entry == r.station_list[index + 1]
         IN  IF r.mode = "FM"
               THEN StartFmRadio([r1 EXCEPT !.frequency = entry])
               ELSE StartDabRadio([r1 EXCEPT !.current_station = entry[2]],
                                  entry[1])

SeekNext ==
    /\ radio' = Seek(radio, 1)
    /\ UNCHANGED <<pc, now, connected, paired_devices, active_device, call_status,
                   current_call, call_history, calls, running, thread, loops,
                   nloops, joining, timers, ret, origin, answered, ended, budget>>

SeekPrev ==
    /\ radio' = Seek(radio, 0 - 1)
    /\ UNCHANGED <<pc, now, connected, paired_devices, active_device, call_status,
                   current_call, call_history, calls, running, thread, loops,
                   nloops, joining, timers, ret, origin, answered, ended, budget>>

NextRadio ==
    \/ \E mode \in ModeArgs : SetMode(mode)
    \/ SeekNext
    \/ SeekPrev

SpecRadio == Init /\ [][NextRadio]_vars

\* The service started and stopped, by one thread that calls start and stop
\* one after the other, while calls are made and timers run.
NextLifecycle ==
    \/ Connect(None)
    \/ \E n \in NumberArgs, c \in ContactArgs : MakeCall(n, c)
    \/ \E t \in BagToSet(timers) : ConnectCall(t)
    \/ \E t \in BagToSet(timers) : AutoMissCall(t)
    \/ Start /\ joining = NoJoin
    \/ Stop
    \/ StopReturn
    \/ \E l \in loops, ring \in BOOLEAN, pick \in PickArgs :
            BluetoothThread(l, ring, pick, FALSE, FALSE, 1)
    \/ Advance

SpecLifecycle == Init /\ [][NextLifecycle]_vars

\* A blocked join returns when the thread exits or the timeout elapses.
FairLifecycle == SpecLifecycle /\ Fairness /\ WF_vars(StopReturn)

\* make_call with every kind of target: a number or none, and no contact id,
\* the id of a contact or an id that no contact has.
TargetNumberArgs == {None, "+15551234567"}
TargetContactArgs == {None, "contact2", "contact9"}

NextTargets ==
    \/ Connect(None)
    \/ Disconnect
    \/ \E n \in TargetNumberArgs, c \in TargetContactArgs : MakeCall(n, c)
    \/ EndCall
    \/ \E t \in BagToSet(timers) : ConnectCall(t)
    \/ Advance

SpecTargets == InitTwoCalls /\ [][NextTargets]_vars

\* connect, disconnect and get_status run statement by statement: the two
\* request handlers each run connect or disconnect while the poller reads
\* the status.
ThreadDeviceArgs == {None, "device2", "device9"}

NextConnThreads ==
    \/ \E t \in Handlers, d \in ThreadDeviceArgs :
            (Ready(t) \/ pc[t].op = "connect") /\ ConnectStep(t, d)
    \/ \E t \in Handlers :
            (Ready(t) \/ pc[t].op = "disconnect") /\ DisconnectStep(t)
    \/ GetStatusStep("poll")

SpecConnThreads == InitDevices /\ [][NextConnThreads]_vars

\* The call session with make_call, answer_call, end_call and the timer
\* callbacks run statement by statement; connect and the loop iteration run
\* as a whole, and the device stays connected.
NextCallThreads ==
    \/ Connect(None)
    \/ \E t \in Handlers :
            (Ready(t) \/ pc[t].op = "make_call") /\ MakeCallStep(t, "+15551234567", None)
    \/ \E t \in Handlers :
            (Ready(t) \/ pc[t].op = "answer_call") /\ AnswerCallStep(t)
    \/ \E t \in Handlers :
            (Ready(t) \/ pc[t].op = "end_call") /\ EndCallStep(t)
    \/ \E tm \in BagToSet(timers) : FireTimer(tm)
    \/ ConnectCallStep
    \/ AutoMissCallStep
    \/ Start
    \/ \E l \in loops, ring \in BOOLEAN, pick \in PickArgs :
            BluetoothThread(l, ring, pick, FALSE, FALSE, 1)
    \/ Advance

SpecCallThreads == Init /\ [][NextCallThreads]_vars

(* ------------------- make_call, end_call, answer_call ------------------ *)
InCall == {"INCOMING", "OUTGOING", "ACTIVE"}
ConnectTimer(at) == [kind |-> "connect", due |-> at + ConnectDelay]
MissTimer(at) == [kind |-> "miss", due |-> at + MissDelay]
LastEnded == ended[Len(ended)]

\* C1: make_call returns True exactly when connected and the status is IDLE;
\* then the status is OUTGOING, the payload has start_time = now and
\* duration = 0 and one auto-connect timer is added; otherwise it returns
\* False and connection, status, payload, history and timers are unchanged.
C1_MakeCallContract ==
    [][\A n \in NumberArgs, c \in ContactArgs : MakeCall(n, c) =>
        /\ (ret' = "True") <=> (connected /\ call_status = "IDLE")
        /\ ret' = "True" =>
             /\ call_status' = "OUTGOING"
             /\ current_call' # NoCall
             /\ calls'[current_call'].start_time = now
             /\ calls'[current_call'].duration = 0
             /\ BagCardinality(timers') = BagCardinality(timers) + 1
             /\ CopiesIn(ConnectTimer(now), timers')
                  = CopiesIn(ConnectTimer(now), timers) + 1
        /\ ret' # "True" =>
             /\ ret' = "False"
             /\ UNCHANGED <<connected, active_device, call_status, current_call,
                            calls, call_history, timers>>
    ]_vars

C1_Witness ==
    /\ ret = "True"
    /\ call_status = "OUTGOING"
    /\ current_call # NoCall
    /\ origin[current_call].how = "make_call"
    /\ calls[current_call].start_time = now
    /\ BagIn(ConnectTimer(now), timers)

\* C2: end_call returns True exactly when connected and the status is ACTIVE,
\* OUTGOING or INCOMING, and then the status is IDLE and the payload cleared;
\* otherwise it returns False and status, payload, history and connection
\* state are unchanged.
C2_EndCallContract ==
    [][EndCall =>
        /\ (ret' = "True") <=> (connected /\ call_status \in InCall)
        /\ ret' = "True" => call_status' = "IDLE" /\ current_call' = NoCall
        /\ ret' # "True" =>
             /\ ret' = "False"
             /\ UNCHANGED <<call_status, current_call, calls, call_history,
                            connected, active_device>>
    ]_vars

C2_Witness ==
    /\ ret = "True"
    /\ call_status = "IDLE"
    /\ current_call = NoCall
    /\ ended # <<>>
    /\ LastEnded.by = "end_call"
    /\ calls[LastEnded.call].type = "outgoing"

\* C3: answer_call returns True exactly when connected and the status is
\* INCOMING; then the status is ACTIVE, start_time is now and number and name
\* are kept; otherwise it returns False and changes nothing.
C3_AnswerCallContract ==
    [][AnswerCall =>
        /\ (ret' = "True") <=> (connected /\ call_status = "INCOMING")
        /\ ret' = "True" =>
             /\ call_status' = "ACTIVE"
             /\ current_call' = current_call
             /\ calls'[current_call].start_time = now
             /\ calls'[current_call].number = calls[current_call].number
             /\ calls'[current_call].name = calls[current_call].name
        /\ ret' # "True" =>
             /\ ret' = "False"
             /\ UNCHANGED <<connected, active_device, paired_devices, call_status,
                            current_call, calls, call_history, timers>>
    ]_vars

C3_Witness ==
    /\ call_status = "ACTIVE"
    /\ ret = "True"
    /\ \E a \in answered :
         /\ a.call = current_call
         /\ a.at > origin[current_call].at
         /\ calls[current_call].start_time = a.at

\* C4: the record a successful end_call inserts depends on the status at that
\* moment: INCOMING gives type missed and duration 0, OUTGOING gives type
\* outgoing and duration 0, ACTIVE gives duration = end_time - start_time,
\* where start_time of an answered call is the time of answer_call.
C4_EndCallRecord ==
    [][(EndCall /\ ret' = "True" /\ current_call # NoCall) =>
        LET r == calls'[current_call]
        IN  /\ call_history'[1] = current_call
            /\ r.end_time = now
            /\ call_status = "INCOMING" => r.type = "missed" /\ r.duration = 0
            /\ call_status = "OUTGOING" => r.type = "outgoing" /\ r.duration = 0
            /\ call_status = "ACTIVE" =>
                 /\ r.duration = r.end_time - r.start_time
                 /\ \A a \in answered : a.call = current_call => r.start_time = a.at
    ]_vars

C4_Witness ==
    /\ ended # <<>>
    /\ LastEnded.by = "end_call"
    /\ \E a \in answered :
         /\ a.call = LastEnded.call
         /\ a.at > origin[a.call].at
         /\ calls[a.call].end_time > a.at
         /\ calls[a.call].duration = calls[a.call].end_time - a.at

(* ------------------------ outcomes and timers -------------------------- *)
\* The calls created after construction, by heap index.
CallIds == (Seeded + 1)..(Seeded + MaxCalls)
HasEnded(id) == \E k \in 1..Len(ended) : ended[k].call = id
WasAnswered(id) == \E a \in answered : a.call = id

\* C5: a record of the history has type incoming only if its call was
\* simulated and answered, and a call created by make_call is never recorded
\* as incoming or missed.
C5_OutcomeMatchesOrigin ==
    \A i \in 1..Len(call_history) :
        LET id == call_history[i]
        IN  origin[id].how # "seed" =>
              /\ calls[id].type = "incoming" =>
                   origin[id].how = "simulated" /\ WasAnswered(id)
              /\ origin[id].how = "make_call" =>
                   calls[id].type \notin {"incoming", "missed"}

\* C6: an OUTGOING call whose timer is due within the horizon becomes ACTIVE
\* with the start_time of make_call, unless it is ended first; and a successful
\* end_call of an ACTIVE call made by make_call prepends one record with
\* duration = now - start_time (positive once time has passed), status IDLE.
C6_AutoConnectThenEnd ==
    /\ \A id \in CallIds :
         (current_call = id /\ call_status = "OUTGOING"
            /\ origin[id].at + ConnectDelay <= MaxTime)
         ~> (\/ /\ current_call = id
                /\ call_status = "ACTIVE"
                /\ calls[id].start_time = origin[id].at
             \/ HasEnded(id))
    /\ [][(EndCall /\ ret' = "True" /\ call_status = "ACTIVE"
             /\ current_call # NoCall /\ origin[current_call].how = "make_call") =>
            LET r == calls'[current_call]
            IN  /\ call_history' = <<current_call>> \o call_history
                /\ r.start_time = origin[current_call].at
                /\ r.duration = now - origin[current_call].at
                /\ now > origin[current_call].at => r.duration > 0
                /\ call_status' = "IDLE"
         ]_vars

C6_Witness ==
    /\ ended # <<>>
    /\ LastEnded.by = "end_call"
    /\ origin[LastEnded.call].how = "make_call"
    /\ call_history[1] = LastEnded.call
    /\ calls[LastEnded.call].duration >= ConnectDelay
    /\ call_status = "IDLE"

\* C7: an INCOMING call whose auto-miss timer is due within the horizon is
\* answered, or it terminates with status IDLE and the payload cleared; the
\* auto-miss firing on an INCOMING call, connected or not, clears status and
\* payload and prepends one record of type missed with duration 0; no call
\* is recorded twice.
C7_AutoMiss ==
    /\ \A id \in CallIds :
         (current_call = id /\ call_status = "INCOMING"
            /\ origin[id].at + MissDelay <= MaxTime)
         ~> (\/ WasAnswered(id)
             \/ HasEnded(id) /\ call_status = "IDLE" /\ current_call = NoCall)
    /\ [][\A t \in BagToSet(timers) :
            (AutoMissCall(t) /\ call_status = "INCOMING") =>
              /\ call_status' = "IDLE"
              /\ current_call' = NoCall
              /\ call_history' = <<current_call>> \o call_history
              /\ calls'[current_call].type = "missed"
              /\ calls'[current_call].duration = 0
         ]_vars
    /\ [](\A i, j \in 1..Len(call_history) :
            call_history[i] = call_history[j] => i = j)

C7_Witness ==
    /\ ended # <<>>
    /\ LastEnded.by = "auto_miss"
    /\ ~LastEnded.conn
    /\ call_status = "IDLE"
    /\ current_call = NoCall
    /\ call_history[1] = LastEnded.call
    /\ calls[LastEnded.call].type = "missed"
    /\ calls[LastEnded.call].end_time = origin[LastEnded.call].at + MissDelay

\* A timer that was not scheduled by the call in progress.
StaleConnect(t) ==
    \/ current_call = NoCall
    \/ origin[current_call].how # "make_call"
    \/ t.due # origin[current_call].at + ConnectDelay
StaleMiss(t) ==
    \/ current_call = NoCall
    \/ origin[current_call].how # "simulated"
    \/ t.due # origin[current_call].at + MissDelay

\* C8: the firing of an auto-connect timer that an earlier, ended call
\* scheduled changes no state of the call session.
C8_StaleConnectTimerInert ==
    [][\A t \in BagToSet(timers) :
         (ConnectCall(t) /\ StaleConnect(t)) =>
            UNCHANGED <<call_status, current_call, calls, call_history>>
    ]_vars

\* C9: the firing of an auto-miss timer that an earlier call scheduled changes
\* no state of the call session and adds no record.
C9_StaleMissTimerInert ==
    [][\A t \in BagToSet(timers) :
         (AutoMissCall(t) /\ StaleMiss(t)) =>
            UNCHANGED <<call_status, current_call, calls, call_history>>
    ]_vars

(* ------------------------------ retention ------------------------------ *)
\* Every call ever recorded, the last terminated first, then the seeded ones.
AllRecords ==
    [i \in 1..Len(ended) |-> ended[Len(ended) + 1 - i].call]
        \o [i \in 1..Seeded |-> i]

\* C10: the history holds at most 50 records, and it is the
\* min(terminated + seeded, 50) most recent ones, most recent first.
C10_HistoryRetention ==
    /\ Len(call_history) <= HistoryLimit
    /\ call_history = SubSeq(AllRecords, 1, Min(Len(AllRecords), HistoryLimit))

C10_Witness ==
    /\ Len(AllRecords) > HistoryLimit + 1
    /\ Len(call_history) = HistoryLimit
    /\ LastEnded.by = "auto_miss"
    /\ call_history[1] = LastEnded.call

(* --------------------------- history frame ----------------------------- *)
\* A call terminates in this step: a successful end_call, or an auto-miss
\* timer firing while the status is INCOMING.
Terminates ==
    \/ EndCall /\ ret' = "True"
    \/ \E t \in BagToSet(timers) : AutoMissCall(t) /\ call_status = "INCOMING"

\* C11: the history changes only in a step that terminates a call, and such a
\* step puts exactly the terminated call in front of the records already
\* there; no other step changes the history, and no step changes a record
\* that is already in the history.
C11_HistoryFrame ==
    [][/\ Terminates =>
            /\ current_call # NoCall
            /\ Len(call_history) < HistoryLimit =>
                 call_history' = <<current_call>> \o call_history
       /\ ~Terminates => call_history' = call_history
       /\ \A i \in 1..Len(call_history) :
            calls'[call_history[i]] = calls[call_history[i]]
    ]_vars

C11_Witness ==
    /\ Len(call_history) = Seeded + 1
    /\ ended # <<>>
    /\ call_history[1] = LastEnded.call
    /\ \A i \in 1..Seeded :
         call_history[i + 1] = i /\ calls[i] = SampleHistory[i]
    /\ call_status = "IDLE"
    /\ ret = "False"

(* ------------------------ connect and disconnect ----------------------- *)
\* C12: connect with an id that is not a key of paired_devices returns False
\* and leaves connected, active_device and paired_devices unchanged; with a
\* key it returns True, connected is true, the device is the active one, its
\* last_connected is now and nothing else of the registry has changed.
C12_ConnectById ==
    [][\A d \in AllDeviceArgs \ {None} : Connect(d) =>
        IF d \notin DOMAIN paired_devices
          THEN /\ ret' = "False"
               /\ UNCHANGED <<connected, active_device, paired_devices>>
          ELSE /\ ret' = "True"
               /\ connected'
               /\ active_device' = d
               /\ paired_devices'[d].last_connected = now
               /\ paired_devices' =
                    [paired_devices EXCEPT ![d] = SetKey(@, "last_connected", now)]
               /\ \A o \in DOMAIN paired_devices \ {d} :
                    paired_devices'[o] = paired_devices[o]
    ]_vars

C12_Witness ==
    /\ ret = "True"
    /\ connected
    /\ active_device = "device3"
    /\ now > 0
    /\ paired_devices["device3"].last_connected = now
    /\ paired_devices["device2"] = SampleDevices["device2"]

\* The registered devices in registration order.
Registered == SelectSeq(DeviceOrder, LAMBDA id : id \in DOMAIN paired_devices)
LastConnectedOf(id) ==
    IF "last_connected" \in DOMAIN paired_devices[id]
      THEN paired_devices[id].last_connected
      ELSE Epoch

\* C13: connect() without an id returns False and changes nothing when no
\* device is registered; otherwise the device it makes active has the
\* greatest last_connected of the registry, a device without the value
\* counting as below all others, and it is the earliest registered of the
\* devices that have this greatest value.
C13_ConnectMostRecent ==
    [][Connect(None) =>
        IF DOMAIN paired_devices = {}
          THEN /\ ret' = "False"
               /\ UNCHANGED <<connected, active_device, paired_devices>>
          ELSE /\ ret' = "True"
               /\ connected'
               /\ \E k \in 1..Len(Registered) :
                    /\ active_device' = Registered[k]
                    /\ \A j \in 1..Len(Registered) :
                         /\ LastConnectedOf(Registered[j]) <= LastConnectedOf(Registered[k])
                         /\ j < k =>
                              LastConnectedOf(Registered[j]) < LastConnectedOf(Registered[k])
                    /\ \A j \in 1..Len(Registered) :
                         ("last_connected" \in DOMAIN paired_devices[Registered[k]]
                            /\ "last_connected" \notin DOMAIN paired_devices[Registered[j]])
                         => LastConnectedOf(Registered[j]) < LastConnectedOf(Registered[k])
    ]_vars

\* connect() has just chosen device2 of a registry in which device1 was never
\* connected and device2 and device3 were tied.
C13_Witness ==
    /\ ret = "True"
    /\ active_device = "device2"
    /\ DOMAIN paired_devices = {"device1", "device2", "device3"}
    /\ "last_connected" \notin DOMAIN paired_devices["device1"]
    /\ paired_devices["device3"].last_connected = 0 - 86400
    /\ paired_devices["device2"].last_connected = now
    /\ paired_devices["device2"].battery = 60
    /\ now = 0

\* C14: disconnect returns True exactly when connected, and then connected is
\* false and active_device is None; otherwise, as for a second disconnect
\* right after a successful one, it returns False and the state is unchanged.
C14_DisconnectContract ==
    [][Disconnect =>
        /\ (ret' = "True") <=> connected
        /\ ret' = "True" => ~connected' /\ active_device' = None
        /\ ret' # "True" =>
             /\ ret' = "False"
             /\ UNCHANGED <<now, connected, paired_devices, active_device,
                            call_status, current_call, call_history, calls,
                            running, thread, loops, nloops, joining, timers>>
    ]_vars

\* disconnect has just succeeded on device2, no loop having been started.
C14_Witness ==
    /\ ret = "True"
    /\ ~connected
    /\ active_device = None
    /\ ~running
    /\ paired_devices["device2"].last_connected = now

(* --------------------------- background tick --------------------------- *)
\* A loop iteration of _bluetooth_thread happens in this step.
Tick ==
    \E l \in loops, drain \in BOOLEAN, move \in BOOLEAN, delta \in DeltaArgs :
        BluetoothThread(l, FALSE, 1, drain, move, delta)

\* C18: while running is set, the loop that start() started is alive: no
\* iteration ends it, whichever device is the active one.
C18_TickLoopSurvives ==
    (running /\ thread # NoThread) => Alive(thread)

\* C20: an iteration changes nothing of the registry when not connected, and
\* otherwise only the active device: the battery stays or goes down by 1 and
\* is never negative, the signal (if the device has one) stays or moves by 1
\* and is within 0..MaxSignal, and every other key is unchanged.
C20_DriftStep ==
    [][Tick =>
        /\ ~connected => paired_devices' = paired_devices
        /\ DOMAIN paired_devices' = DOMAIN paired_devices
        /\ \A id \in DOMAIN paired_devices :
             LET d == paired_devices[id]
                 e == paired_devices'[id]
             IN  /\ id # active_device => e = d
                 /\ DOMAIN e = DOMAIN d
                 /\ \A k \in DOMAIN d \ {"battery", "signal"} : e[k] = d[k]
                 /\ e.battery \in {d.battery, d.battery - 1}
                 /\ e.battery >= 0
                 /\ "signal" \in DOMAIN d =>
                      /\ e.signal \in {d.signal - 1, d.signal, d.signal + 1}
                      /\ e.signal \in 0..MaxSignal
    ]_vars

\* An iteration has just run on the device connected at this instant, whose
\* battery is now at its floor and whose signal is at its ceiling.
C20_Witness ==
    /\ connected
    /\ active_device # None
    /\ now = TickSleep
    /\ paired_devices[active_device].battery = 0
    /\ paired_devices[active_device].signal = MaxSignal
    /\ "last_connected" \in DOMAIN paired_devices[active_device]
    /\ paired_devices[active_device].last_connected = now
    /\ \E l \in loops : l.wake = now + TickSleep

(* ------------------------- interleaved commands ------------------------ *)
\* C15: in every state, also between the statements of concurrent connect
\* and disconnect, connected implies that there is an active device.
C15_ConnectedHasDevice ==
    connected => active_device # None

\* The results of the get_status calls that have completed.
Snapshots == {pc[t].result : t \in {u \in Threads : At(u, "get_status", 0)}}

\* C17: a get_status call that has finished has returned a snapshot, not
\* raised; in the snapshot connected comes with a device name, and the call
\* status is IDLE exactly when there is no current call.
C17_StatusSnapshot ==
    \A r \in Snapshots :
        /\ "raised" \notin DOMAIN r
        /\ r.connected => r.device_name # None
        /\ (r.call_status = "IDLE") <=> (r.current_call = NoCall)

\* No thread is between two statements of an operation.
Quiescent == \A t \in Threads : Ready(t)

\* C16: whenever no operation is in the middle of executing, the status is
\* IDLE exactly when there is no current call.
C16_IdleIffNoCall ==
    Quiescent => ((call_status = "IDLE") <=> (current_call = NoCall))

\* C19: in every state, also between the statements of a timer callback, the
\* status is IDLE, INCOMING, OUTGOING or ACTIVE.
C19_StatusRange ==
    call_status \in {"IDLE", "INCOMING", "OUTGOING", "ACTIVE"}

\* The number of times call id is in the history.
Recorded(id) == Cardinality({i \in 1..Len(call_history) : call_history[i] = id})

\* Termination of call id by `by` has been recorded.
EndedBy(id, by) ==
    \E k \in 1..Len(ended) : ended[k].call = id /\ ended[k].by = by

\* C21: of the auto-miss callback and a concurrent answer_call or end_call
\* of the same call exactly one takes effect: a call that the callback has
\* put in the history is there once, it was not also recorded by end_call
\* and it was not answered.
C21_OneOutcome ==
    \A id \in (Seeded + 1)..Len(calls) :
        EndedBy(id, "auto_miss") =>
            /\ Recorded(id) = 1
            /\ ~EndedBy(id, "end_call")
            /\ ~WasAnswered(id)

(* ------------------------- status transitions -------------------------- *)
\* A loop iteration rings a call in this step.
Rings ==
    \E l \in loops, pick \in PickArgs :
        BluetoothThread(l, TRUE, pick, FALSE, FALSE, 1) /\ current_call' # current_call

\* C25: from one completed operation to the next the status changes only
\* IDLE to OUTGOING by make_call, IDLE to INCOMING by a ringing tick,
\* OUTGOING to ACTIVE by the auto-connect timer, INCOMING to ACTIVE by
\* answer_call, a call in progress to IDLE by a successful end_call, and
\* INCOMING to IDLE by the auto-miss timer; connect and disconnect never
\* change it.
C25_StatusTransitions ==
    [][/\ call_status' # call_status =>
            \/ /\ call_status = "IDLE" /\ call_status' = "OUTGOING"
               /\ \E n \in NumberArgs, c \in ContactArgs : MakeCall(n, c)
            \/ /\ call_status = "IDLE" /\ call_status' = "INCOMING"
               /\ Rings
            \/ /\ call_status = "OUTGOING" /\ call_status' = "ACTIVE"
               /\ \E t \in BagToSet(timers) : ConnectCall(t)
            \/ /\ call_status = "INCOMING" /\ call_status' = "ACTIVE"
               /\ AnswerCall /\ ret' = "True"
            \/ /\ call_status \in InCall /\ call_status' = "IDLE"
               /\ EndCall /\ ret' = "True"
            \/ /\ call_status = "INCOMING" /\ call_status' = "IDLE"
               /\ \E t \in BagToSet(timers) : AutoMissCall(t)
       /\ (call_status = "ACTIVE" /\ call_status' # "ACTIVE") =>
            EndCall /\ ret' = "True"
       /\ ((\E d \in DeviceArgs : Connect(d)) \/ Disconnect) =>
            call_status' = call_status
    ]_vars

\* A call that rang was answered and then ended by end_call: the status has
\* gone IDLE, INCOMING, ACTIVE, IDLE.
C25_Witness ==
    /\ call_status = "IDLE"
    /\ ended # <<>>
    /\ LastEnded.by = "end_call"
    /\ origin[LastEnded.call].how = "simulated"
    /\ WasAnswered(LastEnded.call)
    /\ calls[LastEnded.call].type = "incoming"
    /\ connected

\* C26: disconnect leaves status, payload, calls and history unchanged; while
\* not connected with a call in progress, end_call and answer_call return
\* False and change nothing, and a timer that fires still makes its
\* transition: OUTGOING to ACTIVE, INCOMING to IDLE with the payload cleared.
C26_DisconnectDuringCall ==
    [][/\ Disconnect =>
            UNCHANGED <<call_status, current_call, calls, call_history, timers>>
       /\ ((EndCall \/ AnswerCall) /\ ~connected /\ call_status \in InCall) =>
            /\ ret' = "False"
            /\ UNCHANGED <<connected, active_device, call_status, current_call,
                           calls, call_history, timers>>
       /\ \A t \in BagToSet(timers) :
            /\ (ConnectCall(t) /\ ~connected /\ call_status = "OUTGOING") =>
                 call_status' = "ACTIVE" /\ current_call' = current_call
            /\ (AutoMissCall(t) /\ ~connected /\ call_status = "INCOMING") =>
                 call_status' = "IDLE" /\ current_call' = NoCall
    ]_vars

\* Disconnected during an outgoing call, which its timer has then connected;
\* a command has since been refused.
C26_Witness ==
    /\ ~connected
    /\ call_status = "ACTIVE"
    /\ current_call # NoCall
    /\ origin[current_call].how = "make_call"
    /\ now >= origin[current_call].at + ConnectDelay
    /\ timers = EmptyBag
    /\ ret = "False"

(* ------------------------------ registry ------------------------------- *)
\* C27: while a device is the active one, that is since the last successful
\* connect with no disconnect in between, connect() without an id selects
\* that device again.
C27_ReconnectSameDevice ==
    [][(Connect(None) /\ active_device # None) =>
            active_device' = active_device
    ]_vars

\* C29: the paired device ids are the ones loaded at construction, each
\* dictionary is registered under its own id, and the name and the type of a
\* device never change.
C29_RegistryFixed ==
    /\ DOMAIN paired_devices = DOMAIN SampleDevices
    /\ \A id \in DOMAIN paired_devices :
         /\ paired_devices[id].id = id
         /\ paired_devices[id].name = SampleDevices[id].name
         /\ paired_devices[id].type = SampleDevices[id].type

\* Every device has been connected after construction and the battery of
\* device3 has drained: the registry has changed in every device.
C29_Witness ==
    /\ \A id \in DOMAIN paired_devices :
         paired_devices[id].last_connected > SampleDevices[id].last_connected
    /\ paired_devices["device3"].battery < SampleDevices["device3"].battery
    /\ paired_devices["device1"].signal # SampleDevices["device1"].signal
    /\ ~connected

(* ----------------------------- call target ----------------------------- *)
\* C28: a make_call that goes through leaves the status OUTGOING and a
\* payload that has the number and the name of the contact with the given
\* id, whatever the number argument, or else, when no contact has this id or
\* none is given, the number argument itself (None included) and no name.
C28_CallTarget ==
    [][\A n \in TargetNumberArgs, c \in TargetContactArgs :
         (MakeCall(n, c) /\ connected /\ call_status = "IDLE") =>
            /\ ret' = "True"
            /\ call_status' = "OUTGOING"
            /\ LET payload == calls'[current_call']
                   hits == {i \in 1..Len(contacts) : contacts[i].id = c}
               IN  IF c # None /\ hits # {}
                     THEN \E i \in hits :
                            /\ payload.number = contacts[i].number
                            /\ payload.name = contacts[i].name
                     ELSE /\ payload.number = n
                          /\ payload.name = None
    ]_vars

\* A call to contact2 made with another number as argument is in progress
\* after a call without number and with an unknown contact id was recorded.
C28_Witness ==
    /\ call_status \in {"OUTGOING", "ACTIVE"}
    /\ current_call # NoCall
    /\ calls[current_call].name = "Jane Doe"
    /\ calls[current_call].number = "+1 (555) 987-6543"
    /\ Len(call_history) = Seeded + 1
    /\ calls[call_history[1]].number = None
    /\ calls[call_history[1]].name = None
    /\ calls[call_history[1]].type = "outgoing"

(* ------------------------------ lifecycle ------------------------------ *)
\* C23: at most one tick loop is alive, whatever the sequence of start() and
\* stop() calls.
C23_OneLoop == Cardinality(loops) <= 1

\* A tick of a loop that finds running false.
Exits == \E l \in loops, ring \in BOOLEAN, pick \in PickArgs :
            BluetoothThread(l, ring, pick, FALSE, FALSE, 1) /\ ~running

\* C24: a stop() blocked in join returns; once running is false every loop
\* that wakes up exits, and the step in which it does changes nothing but
\* the set of loops; stop() leaves the timers as they are, and a timer that
\* fires while the service is stopped still applies its transition. (The
\* instants concerned lie within the horizon of the clock.)
C24_StopReturns ==
    /\ (joining # NoJoin /\ joining <= MaxTime) ~> (joining = NoJoin)
    /\ \A id \in 1..MaxLoops :
         (~running /\ \E l \in loops : l.id = id /\ l.wake <= MaxTime)
            ~> (running \/ ~Alive(id))
    /\ [][/\ Exits => /\ Cardinality(loops') < Cardinality(loops)
                      /\ UNCHANGED <<pc, now, connected, paired_devices,
                                     active_device, call_status, current_call,
                                     call_history, calls, running, thread,
                                     nloops, joining, timers, ret, origin,
                                     answered, ended, budget>>
          /\ (Stop \/ StopReturn) =>
                UNCHANGED <<timers, call_status, current_call, calls,
                            call_history, loops>>
          /\ \A t \in BagToSet(timers) :
               /\ (ConnectCall(t) /\ ~running /\ call_status = "OUTGOING")
                     => call_status' = "ACTIVE"
               /\ (AutoMissCall(t) /\ ~running /\ call_status = "INCOMING")
                     => /\ call_status' = "IDLE"
                        /\ Len(call_history') = Len(call_history) + 1
       ]_vars

\* stop() has returned after its join timed out: the loop is still asleep,
\* and the timer of an outgoing call is still scheduled.
C24_Witness ==
    /\ ~running
    /\ thread = NoThread
    /\ joining = NoJoin
    /\ nloops = 1
    /\ loops # {}
    /\ call_status = "OUTGOING"
    /\ timers # EmptyBag

(* -------------------------------- radio -------------------------------- *)
\* C30: whenever the station list is not empty, current_station_index is an
\* index into it (counted from 0).
C30_IndexValid ==
    radio.station_list # <<>> =>
        radio.current_station_index \in 0..(Len(radio.station_list) - 1)

(* ------------------------------ injection ------------------------------ *)
\* C22: the status becomes INCOMING only from IDLE, with the service
\* connected and no payload in place, and a payload is replaced by another
\* only after it was taken away (never one call by the next).
C22_RingOnlyFromIdle ==
    [][/\ (call_status' = "INCOMING" /\ call_status # "INCOMING") =>
             /\ call_status = "IDLE"
             /\ connected
             /\ current_call = NoCall
       /\ (current_call' # current_call /\ current_call' # NoCall) =>
             current_call = NoCall
      ]_vars

====
